---- MODULE Spec2Model ----
(***************************************************************************)
(* A state-machine model of src/src/es5-gfycat-sdk.js: the GfycatSDK       *)
(* constructor, authenticate, the endpoint methods, and the _request       *)
(* orchestrator with its 401-triggered re-authentication and retry.        *)
(*                                                                         *)
(* The HTTP transport (./util/http_browser) and the query encoder (qs) are *)
(* external: the transport is the environment, which answers each request  *)
(* in flight by invoking exactly one of the two continuations it was       *)
(* given.  One action models one run-to-completion step of the JavaScript  *)
(* event loop: a call made by the user, or the handling of one transport   *)
(* answer together with the whole chain of callbacks / promise reactions   *)
(* it sets off, up to the next transport dispatch or the completion of the *)
(* operation.  Promise reactions run as microtasks before any other        *)
(* transport answer is handled, so nothing can interleave inside a step.   *)
(***************************************************************************)
EXTENDS Integers, Sequences, FiniteSets, TLC

(***************************************************************************)
(* Bounds of the model.                                                    *)
(***************************************************************************)
MaxClients == 2      \* client objects that may be constructed
MaxOps == 2          \* logical operations (user calls) that may be issued
MaxCounter == 3      \* cap on options.counter (unbounded in callback mode)

Clients == 1..MaxClients
Ops == 1..MaxOps

(***************************************************************************)
(* JavaScript values.  Every value is a record [t, n, s]: its type tag,    *)
(* its number (for numbers) and its text (for strings; for objects, the    *)
(* name that identifies the object).                                       *)
(***************************************************************************)
Undefined == [t |-> "undefined", n |-> 0, s |-> ""]
Null == [t |-> "null", n |-> 0, s |-> ""]
Num(n) == [t |-> "number", n |-> n, s |-> ""]
Str(s) == [t |-> "string", n |-> 0, s |-> s]
Obj(s) == [t |-> "object", n |-> 0, s |-> s]

\* ToBoolean: undefined, null, 0 and '' are falsy.
Truthy(v) == CASE v.t = "undefined" -> FALSE
               [] v.t = "null" -> FALSE
               [] v.t = "number" -> v.n # 0
               [] v.t = "string" -> v.s # ""
               [] OTHER -> TRUE

\* a || b
Or(a, b) == IF Truthy(a) THEN a ELSE b

\* v == null  (loose equality: matches null and undefined only)
LooseEqNull(v) == v.t \in {"null", "undefined"}

\* obj[key] on a mapping: undefined when the key is absent
Get(obj, key) == IF key \in DOMAIN obj THEN obj[key] ELSE Undefined

\* the empty object {}
EmptyObj == [k \in {} |-> Undefined]

\* '' + v for the values that reach a string concatenation (gfycat ids)
ToStr(v) == CASE v.t = "string" -> v.s
              [] v.t = "null" -> "null"
              [] OTHER -> "undefined"

(***************************************************************************)
(* Program constants.                                                      *)
(***************************************************************************)
API_HOSTNAME == "https://api.gfycat.com"
DefaultBasePath == "/v1"
TestBasePath == "/v1test"
DefaultTimeout == 30000
DefaultRetryLimit == 2
promisesExist == TRUE     \* the runtime has Promise (any ES2015 engine)

RetryLimitMsg == Str("Retry limit reached")
MissingCredentialsMsg == Str("Please provide client_id and client_secret in options")

\* What the transport may answer.  A failure continuation receives an HTTP
\* status code or a transport error; 401 is the number 401.
E401 == Num(401)
TransportErrors == {E401, Num(500), Str("timeout")}
ResponseBody == Obj("gfycats")
TokenBodies == {Obj("T1"), Obj("T2")}

\* res.access_token and res.token_type of a token response body
AccessTokenOf(res) == IF res \in TokenBodies THEN Str("token-" \o res.s) ELSE Undefined
TokenTypeOf(res) == IF res \in TokenBodies THEN Str("bearer") ELSE Undefined

(***************************************************************************)
(* State.                                                                  *)
(*   API_BASE_PATH  the module-level variable of that name                 *)
(*   sdk[c]         the GfycatSDK object c: state is "none" before         *)
(*                  `new GfycatSDK(..)`, "ok" after it returned, "threw"   *)
(*                  when the constructor threw (there is no object then);  *)
(*                  ctor is the argument the constructor was called with   *)
(*   op[o]          the logical operation o, one user call of an endpoint  *)
(*                  method or of authenticate, with everything its         *)
(*                  closures hold and what its caller has observed         *)
(***************************************************************************)
VARIABLES op, sdk, API_BASE_PATH

vars == <<API_BASE_PATH, sdk, op>>

\* Constructor arguments: `given` is FALSE for `new GfycatSDK()`; a field
\* that is Undefined is a property the options object does not have.
CtorOptions == {[given |-> g, client_id |-> i, client_secret |-> s, timeout |-> Undefined] :
                  g \in BOOLEAN, i \in {Undefined, Str("id")}, s \in {Undefined, Str("secret")}}
CtorInputs == {o \in CtorOptions : ~o.given => (o.client_id = Undefined /\ o.client_secret = Undefined)}

NoCtorOptions == [given |-> FALSE, client_id |-> Undefined, client_secret |-> Undefined,
                  timeout |-> Undefined]

NoClient == [state |-> "none", ctor |-> NoCtorOptions,
             client_id |-> Undefined, client_secret |-> Undefined,
             timeout |-> Undefined, apiUrl |-> "", retryLimit |-> 0,
             access_token |-> Undefined, token_type |-> Undefined]

HasOwn(v) == v # Undefined

\* a constructor that takes every options object without both credentials
\* for no options at all
CtorBranchLenient(o) == IF o.given /\ HasOwn(o.client_id) /\ HasOwn(o.client_secret) THEN "credentials"
                        ELSE "anonymous"

\* The three branches of the constructor (lines 41, 45, 48).
CtorBranch(o) == IF o.given /\ HasOwn(o.client_id) /\ HasOwn(o.client_secret) THEN "credentials"
                 ELSE IF ~o.given THEN "anonymous"
                 ELSE "throw"

\* new GfycatSDK(options)
GfycatSDK(c, o) ==
  /\ sdk[c].state = "none"
  /\ \A b \in Clients : b < c => sdk[b].state # "none"     \* objects are numbered in order
  /\ LET branch == CtorBranch(o)
         basePath == IF branch = "anonymous" THEN TestBasePath ELSE API_BASE_PATH
     IN IF branch = "throw"
        THEN /\ sdk' = [sdk EXCEPT ![c].state = "threw", ![c].ctor = o]
             /\ UNCHANGED API_BASE_PATH
        ELSE /\ API_BASE_PATH' = basePath
             /\ sdk' = [sdk EXCEPT ![c] =
                   [state |-> "ok", ctor |-> o,
                    client_id |-> IF branch = "credentials" THEN o.client_id ELSE Undefined,
                    client_secret |-> IF branch = "credentials" THEN o.client_secret ELSE Undefined,
                    timeout |-> IF branch = "credentials" THEN Or(o.timeout, Num(DefaultTimeout)) ELSE Undefined,
                    apiUrl |-> API_HOSTNAME \o basePath,
                    retryLimit |-> DefaultRetryLimit,
                    access_token |-> Undefined,
                    token_type |-> Undefined]]
  /\ UNCHANGED op

(***************************************************************************)
(* Request descriptors: the `options` object handed to _request.  A        *)
(* mapping-valued property (query, payload, headers) comes with a flag     *)
(* that says whether the property is there at all.  counter is             *)
(* `options.counter || 0`.                                                 *)
(***************************************************************************)
Descriptor(api, endpoint, method, hasQuery, query, hasPayload, payload, hasHeaders, headers) ==
  [api |-> api, endpoint |-> endpoint, method |-> method,
   hasQuery |-> hasQuery, query |-> query,
   hasPayload |-> hasPayload, payload |-> payload,
   hasHeaders |-> hasHeaders, headers |-> headers,
   timeout |-> Undefined, counter |-> 0]

NoDescriptor == Descriptor("", "", "", FALSE, EmptyObj, FALSE, EmptyObj, FALSE, EmptyObj)

EndpointMethods == {"getCategories", "getTrendingCategories", "getTrending", "getTrendingTags",
                    "getTrendingTagsPopulated", "search", "searchById", "getRelatedContent",
                    "artifacts", "stickers"}

\* The methods that start with `if (!options) options = {}`; the others read
\* a property of `options` at once and throw a TypeError when it is undefined.
GuardsOptions(m) == m \in {"getCategories", "getTrendingCategories", "getTrending",
                           "getTrendingTags", "getTrendingTagsPopulated"}

\* The methods that hand their callback argument on to _request (stickers
\* calls _request with the descriptor alone, line 313-322).
ForwardsCallback(m) == m # "stickers"

\* The descriptor each endpoint method builds from its options mapping o.
MethodDescriptor(m, o) ==
  CASE m = "getCategories" ->
         Descriptor("/reactions", "/populated", "GET", TRUE,
           [gfyCount |-> Or(Get(o, "gfyCount"), Num(1)),
            count |-> Or(Get(o, "count"), Null),
            cursor |-> Or(Get(o, "cursor"), Null),
            locale |-> Or(Get(o, "locale"), Null)],
           FALSE, EmptyObj, FALSE, EmptyObj)
    [] m = "getTrendingCategories" ->
         Descriptor("/reactions", "/populated", "GET", TRUE,
           [gfyCount |-> Or(Get(o, "gfyCount"), Num(1)),
            cursor |-> Or(Get(o, "cursor"), Null),
            tagName |-> Or(Get(o, "tagName"), Str("trending"))],
           FALSE, EmptyObj, FALSE, EmptyObj)
    [] m = "getTrending" ->
         Descriptor("/gfycats", "/trending", "GET", TRUE,
           [count |-> Or(Get(o, "count"), Num(100)),
            cursor |-> Or(Get(o, "cursor"), Null),
            tagName |-> Or(Get(o, "tagName"), Null)],
           FALSE, EmptyObj, FALSE, EmptyObj)
    [] m = "getTrendingTags" ->
         Descriptor("/tags", "/trending", "GET", FALSE, EmptyObj,
           FALSE, EmptyObj, FALSE, EmptyObj)
    [] m = "getTrendingTagsPopulated" ->
         Descriptor("/tags", "/trending/populated", "GET", TRUE,
           [count |-> Or(Get(o, "count"), Num(100)),
            cursor |-> Or(Get(o, "cursor"), Null),
            gfyCount |-> Or(Get(o, "gfyCount"), Num(1))],
           FALSE, EmptyObj, FALSE, EmptyObj)
    [] m = "search" ->
         Descriptor("/gfycats", "/search", "GET", TRUE,
           [search_text |-> Get(o, "search_text"),
            count |-> Or(Get(o, "count"), Num(100)),
            start |-> Or(Get(o, "start"), Null),
            cursor |-> Or(Get(o, "cursor"), Null)],
           FALSE, EmptyObj, FALSE, EmptyObj)
    [] m = "searchById" ->
         Descriptor("/gfycats", "/" \o ToStr(Get(o, "id")), "GET", FALSE, EmptyObj,
           FALSE, EmptyObj, FALSE, EmptyObj)
    [] m = "getRelatedContent" ->
         Descriptor("/gfycats", "/" \o ToStr(Get(o, "id")) \o "/related", "GET", TRUE,
           [cursor |-> Get(o, "cursor"),
            count |-> Get(o, "count"),
            from |-> Get(o, "from")],
           FALSE, EmptyObj, FALSE, EmptyObj)
    [] m = "artifacts" ->
         Descriptor("/gifartifacts", "", "POST", FALSE, EmptyObj,
           TRUE, [uploadKey |-> Get(o, "uploadKey"), tags |-> Get(o, "tags")],
           TRUE, [k \in {"Content-Type"} |-> Str("application/x-www-form-urlencoded")])
    [] m = "stickers" ->
         Descriptor("/stickers", IF Truthy(Get(o, "search_text")) THEN "/search" ELSE "", "GET", TRUE,
           [cursor |-> Get(o, "cursor"),
            count |-> Get(o, "count"),
            search_text |-> Get(o, "search_text")],
           FALSE, EmptyObj, FALSE, EmptyObj)

\* The descriptor authenticate builds (lines 73-82) from its options o and
\* the client k.
AuthDescriptor(k, o) ==
  Descriptor("/oauth", "/token", "POST", FALSE, EmptyObj,
    TRUE, [client_id |-> Or(Get(o, "client_id"), k.client_id),
           client_secret |-> Or(Get(o, "client_secret"), k.client_secret),
           grant_type |-> Or(Get(o, "grant_type"), Str("client_credentials"))],
    FALSE, EmptyObj)

\* a guard that looks at the client alone
MissingCredentialsOnClient(k, o) == ~(Truthy(k.client_id) \/ Truthy(k.client_secret))

\* authenticate's guard (line 69): no credentials on the client and none in
\* the call's options.
MissingCredentials(k, o) ==
  /\ ~(Truthy(k.client_id) \/ Truthy(k.client_secret))
  /\ ~(Truthy(Get(o, "client_id")) \/ Truthy(Get(o, "client_secret")))

(***************************************************************************)
(* _request, up to the transport dispatch (lines 338-385).                 *)
(***************************************************************************)
\* line 349: counter >= this.retryLimit
RetryLimitReached(options, k) == options.counter >= k.retryLimit

\* a header that is set once and not replaced when the token changes
WithAuthorizationOnce(options, k) ==
  IF Truthy(k.access_token) /\ "Authorization" \notin DOMAIN options.headers
  THEN [options EXCEPT
          !.hasHeaders = TRUE,
          !.headers = [h \in DOMAIN options.headers \cup {"Authorization"} |->
                         IF h = "Authorization" THEN k.access_token ELSE options.headers[h]]]
  ELSE options

\* lines 354-360: with a token stored, options.headers is created if need
\* be and its Authorization entry is set to this.access_token.
WithAuthorization(options, k) ==
  IF Truthy(k.access_token)
  THEN [options EXCEPT
          !.hasHeaders = TRUE,
          !.headers = [h \in DOMAIN options.headers \cup {"Authorization"} |->
                         IF h = "Authorization" THEN k.access_token ELSE options.headers[h]]]
  ELSE options

\* line 364: typeof options.query === 'object' && Object.keys(options.query).length
EncodesQuery(options) == options.hasQuery /\ DOMAIN options.query # {}

\* a filter that tests `!options.query[key]` and so drops 0 and '' too
StripFalsy(query) == [key \in {x \in DOMAIN query : Truthy(query[x])} |-> query[key]]

\* lines 367-372: delete every key whose value == null
StripNulls(query) == [key \in {x \in DOMAIN query : ~LooseEqNull(query[x])} |-> query[key]]

\* The descriptor as _request leaves it: both changes are made in place, on
\* the object the caller passed.
Prepared(options, k) ==
  LET withAuth == WithAuthorization(options, k)
  IN IF EncodesQuery(withAuth)
     THEN [withAuth EXCEPT !.query = StripNulls(@)]
     ELSE withAuth

\* lines 362-385: httpOptions.  options is the descriptor as _request
\* received it, which decides whether a query string is appended; prepared
\* is the descriptor after the changes above.  url is kept in parts: the
\* path, whether '?' + queryString.stringify(..) is appended, and the
\* mapping handed to queryString.stringify.
HttpOptions(options, prepared, k) ==
  [hasHeaders |-> prepared.hasHeaders, headers |-> prepared.headers,
   method |-> prepared.method,
   hasPayload |-> prepared.hasPayload, payload |-> prepared.payload,
   url |-> [path |-> k.apiUrl \o prepared.api \o prepared.endpoint,
            hasQuery |-> EncodesQuery(options),
            args |-> IF EncodesQuery(options) THEN prepared.query ELSE EmptyObj],
   timeout |-> Or(prepared.timeout, k.timeout)]

NoHttp == HttpOptions(NoDescriptor, NoDescriptor, NoClient)

(***************************************************************************)
(* Operations.  op[o] holds                                                *)
(*   pc         "idle"     not called yet                                  *)
(*              "request"  a request to an endpoint is with the transport  *)
(*              "oauth"    a request to /oauth/token is with the transport *)
(*              "done"     nothing is in flight and nothing will be        *)
(*              "threw"    the method threw synchronously                  *)
(*   client, method, args, userCb   the call: on which client, which       *)
(*              method, with which options argument, and whether the       *)
(*              caller passed a callback                                   *)
(*   cb         whether _request / authenticate received a callback        *)
(*   options    the descriptor object of the call (the closure's options)  *)
(*   http       the httpOptions last handed to the transport: those of the *)
(*              request in flight when pc is "request" or "oauth"          *)
(*   hist       what the transport answered so far                         *)
(*   out        what the caller observed so far: callback invocations and  *)
(*              the settlement of the returned promise                     *)
(*   dispatched how many endpoint requests were handed to the transport    *)
(*   reauths    how many times the 401 handler called authenticate         *)
(***************************************************************************)
IdleOp == [pc |-> "idle", client |-> 0, method |-> "", args |-> [given |-> FALSE, f |-> EmptyObj],
           userCb |-> FALSE, cb |-> FALSE,
           options |-> NoDescriptor, http |-> NoHttp, hist |-> << >>, out |-> << >>,
           dispatched |-> 0, reauths |-> 0]

Called(err, res) == [via |-> "callback", err |-> err, res |-> res]
Fulfilled(value) == [via |-> "promise", err |-> Null, res |-> value]
Rejected(reason) == [via |-> "promise", err |-> reason, res |-> Undefined]

\* an entry of hist: the api of the request, the status the transport
\* answered with (200, or the value given to the failure continuation) and
\* the body given to the success continuation
Answered(api, status, body) == [api |-> api, status |-> status, body |-> body]

\* an answer without a body: a failure
Answer(api, status) == Answered(api, status, Undefined)

\* callback(null, res), or the returned promise fulfilled with res
Succeed(r, res) ==
  [r EXCEPT !.pc = "done", !.out = Append(@, IF r.cb THEN Called(Null, res) ELSE Fulfilled(res))]

\* callback(err), or the returned promise rejected with err
Fail(r, err) ==
  [r EXCEPT !.pc = "done", !.out = Append(@, IF r.cb THEN Called(err, Undefined) ELSE Rejected(err))]

\* a retry limit that passes on the status of the last answer
AtRetryLimitLastError(r) ==
  IF r.cb
  THEN [r EXCEPT !.out = Append(@, Called(r.hist[Len(r.hist) - 1].status, Undefined))]
  ELSE [r EXCEPT !.pc = "done", !.out = Append(@, Rejected(r.hist[Len(r.hist) - 1].status))]

\* lines 349-352: with a callback, _handleErr calls it and _request goes
\* on; without one, _request returns a rejected promise.
AtRetryLimit(r) ==
  IF r.cb
  THEN [r EXCEPT !.out = Append(@, Called(RetryLimitMsg, Undefined))]
  ELSE [r EXCEPT !.pc = "done", !.out = Append(@, Rejected(RetryLimitMsg))]

\* lines 377-412: the request goes to the transport.
Dispatch(r, k, options) ==
  LET prepared == Prepared(options, k)
      oauth == options.api = "/oauth"
  IN [r EXCEPT !.pc = IF oauth THEN "oauth" ELSE "request",
               !.options = IF oauth /\ r.method # "authenticate" THEN @ ELSE prepared,
               !.http = HttpOptions(options, prepared, k),
               !.dispatched = IF oauth THEN @ ELSE @ + 1]

\* _request(options, callback) on client k, for the operation r.  (A token
\* request always has counter 0, below retryLimit.)
Request(r, k, options) ==
  IF ~r.cb /\ ~promisesExist
  THEN [r EXCEPT !.pc = "threw"]
  ELSE IF RetryLimitReached(options, k)
  THEN LET r1 == AtRetryLimit([r EXCEPT !.options = options])
       IN IF r1.pc = "done" THEN r1 ELSE Dispatch(r1, k, options)
  ELSE Dispatch(r, k, options)

\* authenticate(o, callback) on client k, for the operation r (lines 67-103)
Authenticate(r, k, o) ==
  IF MissingCredentials(k, o)
  THEN Fail(r, MissingCredentialsMsg)
  ELSE Request(r, k, AuthDescriptor(k, o))

\* a 401 handler that compares with the string '401'
NeedsReauthStringStatus(err, api) == err = Str("401") /\ api # "/oauth"

\* a 401 handler that re-authenticates on every status code
NeedsReauthAnyStatus(err, api) == err.t = "number" /\ api # "/oauth"

\* line 394 and line 417: err === 401 && options.api !== '/oauth'
NeedsReauth(err, api) == err = E401 /\ api # "/oauth"

\* a _setToken that stores the token type alone
SetTokenTypeOnly(k, res) == [k EXCEPT !.token_type = TokenTypeOf(res)]

\* a _setToken that keeps a token already stored
SetTokenOnce(k, res) == IF Truthy(k.access_token) THEN k ELSE [k EXCEPT !.access_token = AccessTokenOf(res), !.token_type = TokenTypeOf(res)]

\* _setToken (lines 433-436)
SetToken(k, res) == [k EXCEPT !.access_token = AccessTokenOf(res), !.token_type = TokenTypeOf(res)]

\* lines 398-399 and 420-421: options.counter = counter + 1, then _request
\* again.  The assignment is to the descriptor object of the earlier attempt
\* and that same object is handed to _request: no copy is made.
Retry(r, k) == Request(r, k, [r.options EXCEPT !.counter = @ + 1])

\* What the promise returned by authenticate(options) settles to (lines
\* 94-101).  Neither reaction returns a value: `Promise.resolve(res)` and
\* `Promise.reject(err)` make promises nobody holds, so the returned promise
\* is fulfilled with undefined after a success and after a failure alike.
AuthenticatePromise(ok, value) == Fulfilled(Undefined)

(***************************************************************************)
(* Inputs of the user's calls.  An options argument is [given, f]: given   *)
(* is FALSE when the argument is left out, f maps each property the method *)
(* reads to its value, Undefined for a property the object does not have.  *)
(***************************************************************************)
NumberValues == {Undefined, Null, Num(0), Num(5)}
StringValues == {Undefined, Null, Str(""), Str("x")}

OptionKeys(m) ==
  CASE m = "getCategories" -> {"gfyCount", "count", "cursor", "locale"}
    [] m = "getTrendingCategories" -> {"gfyCount", "cursor", "tagName"}
    [] m = "getTrending" -> {"count", "cursor", "tagName"}
    [] m = "getTrendingTags" -> {"cursor"}
    [] m = "getTrendingTagsPopulated" -> {"count", "cursor", "gfyCount"}
    [] m = "search" -> {"search_text", "count", "start", "cursor"}
    [] m = "searchById" -> {"id"}
    [] m = "getRelatedContent" -> {"id", "cursor", "count", "from"}
    [] m = "artifacts" -> {"uploadKey", "tags"}
    [] m = "stickers" -> {"search_text", "cursor", "count"}

NumberKeys == {"gfyCount", "count", "start"}
StringKeys == {"cursor", "locale", "tagName", "search_text", "from"}

\* the properties the model keeps at one value: ids, upload keys, tags
FixedValue(key) == Str(key \o "-1")

NoOptions == [given |-> FALSE, f |-> EmptyObj]

\* every options object for method m
AllOptions(m) ==
  {[given |-> TRUE,
    f |-> [key \in OptionKeys(m) |->
             IF key \in NumberKeys THEN a[key]
             ELSE IF key \in StringKeys THEN b[key]
             ELSE FixedValue(key)]] :
     a \in [OptionKeys(m) \cap NumberKeys -> NumberValues],
     b \in [OptionKeys(m) \cap StringKeys -> StringValues]}
  \cup {NoOptions}

\* the options object with the required properties only
PlainOptions(m) ==
  [given |-> TRUE,
   f |-> [key \in OptionKeys(m) |->
            IF key \in NumberKeys \cup StringKeys THEN Undefined ELSE FixedValue(key)]]

AuthOptions ==
  {NoOptions,
   [given |-> TRUE, f |-> EmptyObj],
   [given |-> TRUE, f |-> [client_id |-> Str("id2")]],
   [given |-> TRUE, f |-> [client_id |-> Str("id2"), client_secret |-> Str("secret2")]]}

(***************************************************************************)
(* Actions.                                                                *)
(***************************************************************************)
Init ==
  /\ API_BASE_PATH = DefaultBasePath
  /\ sdk = [c \in Clients |-> NoClient]
  /\ op = [o \in Ops |-> IdleOp]

\* Operations are numbered in the order of their calls.
Unused(o) == op[o].pc = "idle" /\ \A p \in Ops : p < o => op[p].pc # "idle"

\* The user calls endpoint method m of client c, with or without a callback.
CallEndpoint(o, c, m, opts, withCb) ==
  /\ Unused(o)
  /\ sdk[c].state = "ok"
  /\ LET r == [IdleOp EXCEPT !.client = c, !.method = m, !.args = opts, !.userCb = withCb,
                             !.cb = withCb /\ ForwardsCallback(m)]
     IN IF ~opts.given /\ ~GuardsOptions(m)
        THEN op' = [op EXCEPT ![o] = [r EXCEPT !.pc = "threw"]]
        ELSE op' = [op EXCEPT ![o] = Request(r, sdk[c], MethodDescriptor(m, opts.f))]
  /\ UNCHANGED <<API_BASE_PATH, sdk>>

\* The user calls authenticate on client c.
CallAuthenticate(o, c, opts, withCb) ==
  /\ Unused(o)
  /\ sdk[c].state = "ok"
  /\ LET r == [IdleOp EXCEPT !.client = c, !.method = "authenticate", !.args = opts,
                             !.userCb = withCb, !.cb = withCb]
     IN op' = [op EXCEPT ![o] = Authenticate(r, sdk[c], opts.f)]
  /\ UNCHANGED <<API_BASE_PATH, sdk>>

\* The transport answers the endpoint request of o with a body: `resolve`.
RequestResolve(o) ==
  /\ op[o].pc = "request"
  /\ LET r == [op[o] EXCEPT !.hist = Append(@, Answered(op[o].options.api, Num(200), ResponseBody))]
     IN op' = [op EXCEPT ![o] = Succeed(r, ResponseBody)]
  /\ UNCHANGED <<API_BASE_PATH, sdk>>

\* The transport fails the endpoint request of o with err: `reject`.
RequestReject(o, err) ==
  /\ op[o].pc = "request"
  /\ LET r == [op[o] EXCEPT !.hist = Append(@, Answer(op[o].options.api, err))]
     IN IF NeedsReauth(err, r.options.api)
        THEN op' = [op EXCEPT ![o] =
                      Authenticate([r EXCEPT !.reauths = @ + 1], sdk[r.client], EmptyObj)]
        ELSE op' = [op EXCEPT ![o] = Fail(r, err)]
  /\ UNCHANGED <<API_BASE_PATH, sdk>>

\* The transport answers the token request of o with the body res.  The
\* token is stored; a call of authenticate completes, a 401 handler retries.
OauthResolve(o, res) ==
  /\ op[o].pc = "oauth"
  /\ LET r == [op[o] EXCEPT !.hist = Append(@, Answered("/oauth", Num(200), res))]
         k == SetToken(sdk[r.client], res)
     IN /\ sdk' = [sdk EXCEPT ![r.client] = k]
        /\ IF r.method = "authenticate"
           THEN op' = [op EXCEPT ![o] =
                         [r EXCEPT !.pc = "done",
                                   !.out = Append(@, IF r.cb THEN Called(Null, res)
                                                     ELSE AuthenticatePromise(TRUE, res))]]
           ELSE /\ r.options.counter < MaxCounter
                /\ op' = [op EXCEPT ![o] = Retry(r, k)]
  /\ UNCHANGED API_BASE_PATH

\* The transport fails the token request of o with err.  `reject` of the
\* token request's _request passes err on (its api is '/oauth'); with a
\* callback the error reaches the caller, without one authenticate's
\* promise settles as AuthenticatePromise says and the 401 handler's
\* `.then` runs.
OauthReject(o, err) ==
  /\ op[o].pc = "oauth"
  /\ ~NeedsReauth(err, "/oauth")
  /\ LET r == [op[o] EXCEPT !.hist = Append(@, Answer("/oauth", err))]
         settled == AuthenticatePromise(FALSE, err)
     IN IF r.cb
        THEN op' = [op EXCEPT ![o] = Fail(r, err)]
        ELSE IF r.method = "authenticate"
        THEN op' = [op EXCEPT ![o] = [r EXCEPT !.pc = "done", !.out = Append(@, settled)]]
        ELSE IF settled.err = Null
        THEN /\ r.options.counter < MaxCounter
             /\ op' = [op EXCEPT ![o] = Retry(r, sdk[r.client])]
        ELSE op' = [op EXCEPT ![o] = Fail(r, settled.err)]
  /\ UNCHANGED <<API_BASE_PATH, sdk>>

\* the constructor calls that return a client
CtorReturns == {o \in CtorInputs : CtorBranch(o) # "throw"}

\* The calls of the concurrent program: what matters to the protocol is
\* whether _request gets a callback and whether the request is a token
\* request, so one method of each kind stands for the others.
Next ==
  \/ \E c \in Clients, o \in CtorReturns : GfycatSDK(c, o)
  \/ \E o \in Ops, c \in Clients, withCb \in BOOLEAN :
        CallEndpoint(o, c, "getTrending", PlainOptions("getTrending"), withCb)
  \/ \E o \in Ops, c \in Clients :
        CallEndpoint(o, c, "stickers", PlainOptions("stickers"), TRUE)
  \/ \E o \in Ops, c \in Clients, withCb \in BOOLEAN :
        CallAuthenticate(o, c, NoOptions, withCb)
  \/ \E o \in Ops : RequestResolve(o)
  \/ \E o \in Ops, err \in TransportErrors : RequestReject(o, err)
  \/ \E o \in Ops, res \in TokenBodies : OauthResolve(o, res)
  \/ \E o \in Ops, err \in TransportErrors : OauthReject(o, err)

Spec == Init /\ [][Next]_vars

(***************************************************************************)
(* A program that makes a single call, of any method of any client, with   *)
(* or without its options argument.                                        *)
(***************************************************************************)
NextCall ==
  \/ \E c \in Clients, o \in CtorInputs : GfycatSDK(c, o)
  \/ \E c \in Clients, m \in EndpointMethods, withCb \in BOOLEAN :
        \E opts \in {NoOptions, PlainOptions(m)} : CallEndpoint(1, c, m, opts, withCb)
  \/ \E c \in Clients, opts \in AuthOptions, withCb \in BOOLEAN :
        CallAuthenticate(1, c, opts, withCb)
  \/ \E o \in Ops : RequestResolve(o)
  \/ \E o \in Ops, err \in TransportErrors : RequestReject(o, err)
  \/ \E o \in Ops, res \in TokenBodies : OauthResolve(o, res)
  \/ \E o \in Ops, err \in TransportErrors : OauthReject(o, err)

SpecCall == Init /\ [][NextCall]_vars

(***************************************************************************)
(* A program that constructs one client and calls one endpoint method,     *)
(* with every options object.                                              *)
(***************************************************************************)
NextAPI ==
  \/ \E o \in CtorInputs : GfycatSDK(1, o)
  \/ \E m \in EndpointMethods, withCb \in BOOLEAN :
        /\ Unused(1)
        /\ \E opts \in AllOptions(m) : CallEndpoint(1, 1, m, opts, withCb)
  \/ \E o \in Ops : RequestResolve(o)
  \/ \E o \in Ops, err \in TransportErrors : RequestReject(o, err)
  \/ \E o \in Ops, res \in TokenBodies : OauthResolve(o, res)
  \/ \E o \in Ops, err \in TransportErrors : OauthReject(o, err)

SpecAPI == Init /\ [][NextAPI]_vars

(***************************************************************************)
(* Properties.                                                             *)
(***************************************************************************)
IsEndpointOp(r) == r.method \in EndpointMethods /\ r.pc \notin {"idle", "threw"}
IsAuthenticateOp(r) == r.method = "authenticate" /\ r.pc # "idle"

\* the client was constructed with client_id and client_secret
Authenticated(k) == k.state = "ok" /\ Truthy(k.client_id) /\ Truthy(k.client_secret)

EndpointAnswer(a, status) == a.api # "/oauth" /\ a.status = status
TokenAnswer(a, status) == a.api = "/oauth" /\ a.status = status

\* hist is the start of: the endpoint request fails with 401, the token
\* request succeeds, the second endpoint request succeeds
OneRetryRun(hist) ==
  /\ Len(hist) <= 3
  /\ Len(hist) >= 1 => EndpointAnswer(hist[1], E401)
  /\ Len(hist) >= 2 => TokenAnswer(hist[2], Num(200))
  /\ Len(hist) >= 3 => EndpointAnswer(hist[3], Num(200))

\* C1: on an authenticated client, an endpoint operation whose first request
\* is answered 401, whose re-authentication succeeds and whose retried
\* request succeeds completes exactly once, with the response body of the
\* retried request, through the convention _request was called with; until
\* then the caller has observed nothing, and in particular no error.
C1_TransparentRetry ==
  \A o \in Ops :
    LET r == op[o]
    IN (IsEndpointOp(r) /\ Authenticated(sdk[r.client]) /\ OneRetryRun(r.hist)) =>
         IF Len(r.hist) = 3
         THEN /\ r.pc = "done"
              /\ r.out = << IF r.cb THEN Called(Null, ResponseBody) ELSE Fulfilled(ResponseBody) >>
         ELSE /\ r.pc \in {"request", "oauth"}
              /\ r.out = << >>

C1_Witness ==
  \E o \in Ops :
    /\ IsEndpointOp(op[o]) /\ Authenticated(sdk[op[o].client])
    /\ op[o].userCb /\ op[o].cb
    /\ OneRetryRun(op[o].hist) /\ Len(op[o].hist) = 3
    /\ op[o].out = << Called(Null, ResponseBody) >>

C1_WitnessPromise ==
  \E o \in Ops :
    /\ IsEndpointOp(op[o]) /\ Authenticated(sdk[op[o].client])
    /\ ~op[o].userCb
    /\ OneRetryRun(op[o].hist) /\ Len(op[o].hist) = 3
    /\ op[o].out = << Fulfilled(ResponseBody) >>

\* every endpoint request so far was answered 401 and every token request
\* so far succeeded
Always401(hist) ==
  \A i \in 1..Len(hist) :
    IF hist[i].api = "/oauth" THEN hist[i].status = Num(200) ELSE hist[i].status = E401

IsFailure(e) == e.err # Null /\ e.res = Undefined

\* C2: on an authenticated client, an endpoint operation whose every request
\* is answered 401 while every re-authentication succeeds is dispatched
\* retryLimit times and no more: once the last of these is answered and
\* re-authenticated, the operation is over, with one failure delivered.
C2_FailsAfterRetryLimitDispatches ==
  \A o \in Ops :
    LET r == op[o]
        k == sdk[r.client]
    IN (IsEndpointOp(r) /\ Authenticated(k) /\ Always401(r.hist)) =>
         /\ r.dispatched <= k.retryLimit
         /\ Len(r.hist) >= 2 * k.retryLimit =>
               /\ r.pc = "done"
               /\ r.dispatched = k.retryLimit
               /\ Len(r.out) = 1 /\ IsFailure(r.out[1])

\* C3, as claimed: under the same transport, whatever error the caller is
\* given is the 401 the transport answered last.
C3_ExhaustionSurfacesLast401 ==
  \A o \in Ops :
    LET r == op[o]
    IN (IsEndpointOp(r) /\ Authenticated(sdk[r.client]) /\ Always401(r.hist)) =>
         \A i \in 1..Len(r.out) : r.out[i].err = E401

\* C3, amended: under the same transport, the caller is given nothing before
\* retryLimit requests were answered 401 and re-authenticated, something
\* from then on, and every error it is given is the string
\* 'Retry limit reached', in the callback's error slot or as the rejection
\* of the promise.
C3_ExhaustionSurfacesRetryLimitMessage ==
  \A o \in Ops :
    LET r == op[o]
        k == sdk[r.client]
    IN (IsEndpointOp(r) /\ Authenticated(k) /\ Always401(r.hist)) =>
         /\ \A i \in 1..Len(r.out) :
              r.out[i] = IF r.cb THEN Called(RetryLimitMsg, Undefined) ELSE Rejected(RetryLimitMsg)
         /\ (r.out # << >>) <=> (Len(r.hist) >= 2 * k.retryLimit)

C3_Witness ==
  \E o \in Ops :
    /\ IsEndpointOp(op[o]) /\ Authenticated(sdk[op[o].client]) /\ Always401(op[o].hist)
    /\ Len(op[o].hist) = 2 * sdk[op[o].client].retryLimit
    /\ op[o].pc = "done"
    /\ op[o].out = << Rejected(RetryLimitMsg) >>

\* C4: the counter of an operation never exceeds retryLimit, and an
\* operation whose counter has reached retryLimit is over, in failure, with
\* no request in flight.
C4_CounterNeverExceedsRetryLimit ==
  \A o \in Ops :
    LET r == op[o]
        k == sdk[r.client]
    IN IsEndpointOp(r) =>
         /\ r.options.counter <= k.retryLimit
         /\ r.options.counter >= k.retryLimit =>
               /\ r.pc = "done"
               /\ r.out # << >> /\ IsFailure(r.out[Len(r.out)])

\* C5: a call of authenticate whose token request is answered 401 is over at
\* once: no re-authentication, no second request, and the 401 in the
\* callback's error slot or as the rejection of the returned promise.
C5_Oauth401DeliveredToCaller ==
  \A o \in Ops :
    LET r == op[o]
    IN (IsAuthenticateOp(r) /\ r.hist # << >> /\ TokenAnswer(r.hist[1], E401)) =>
         /\ r.pc = "done" /\ Len(r.hist) = 1 /\ r.reauths = 0
         /\ r.out = << IF r.userCb THEN Called(E401, Undefined) ELSE Rejected(E401) >>

\* C6: an endpoint operation whose request the transport answers with a body
\* or fails with anything but 401 delivers that outcome once: to the
\* callback, as (null, body) or (error, undefined), when the caller passed
\* one, and else by fulfilling or rejecting the returned promise.
C6_ConventionFollowsCallback ==
  \A o \in Ops :
    LET r == op[o]
    IN (IsEndpointOp(r) /\ Len(r.hist) = 1 /\ ~EndpointAnswer(r.hist[1], E401)) =>
         LET status == r.hist[1].status
         IN r.out = << IF status = Num(200)
                       THEN (IF r.userCb THEN Called(Null, ResponseBody) ELSE Fulfilled(ResponseBody))
                       ELSE (IF r.userCb THEN Called(status, Undefined) ELSE Rejected(status)) >>

\* C7: the promise returned by authenticate called without a callback is
\* fulfilled with the token response body when the token request succeeds
\* and rejected with the transport's error when it fails.
C7_AuthenticatePromiseMirrorsCallback ==
  \A o \in Ops :
    LET r == op[o]
    IN (IsAuthenticateOp(r) /\ ~r.userCb /\ Len(r.hist) = 1) =>
         IF r.hist[1].status = Num(200)
         THEN \E res \in TokenBodies : r.out = << Fulfilled(res) >>
         ELSE r.out = << Rejected(r.hist[1].status) >>

InFlight(r) == r.pc \in {"request", "oauth"}

StartsWith(str, prefix) == Len(str) >= Len(prefix) /\ SubSeq(str, 1, Len(prefix)) = prefix

\* an options object with exactly one of client_id and client_secret
OneCredentialOnly(o) == o.given /\ (HasOwn(o.client_id) # HasOwn(o.client_secret))

\* C8: a constructor call with exactly one of client_id / client_secret
\* throws and leaves no client; a constructor call without options returns
\* a client without credentials, and every request of that client that is
\* with the transport has a URL under https://api.gfycat.com/v1test/.
C8_ConstructorModes ==
  \A c \in Clients :
    sdk[c].state # "none" =>
      /\ OneCredentialOnly(sdk[c].ctor) => sdk[c].state = "threw"
      /\ ~sdk[c].ctor.given =>
            /\ sdk[c].state = "ok"
            /\ sdk[c].client_id = Undefined /\ sdk[c].client_secret = Undefined
            /\ \A o \in Ops :
                 (op[o].client = c /\ InFlight(op[o])) =>
                    StartsWith(op[o].http.url.path, API_HOSTNAME \o "/v1test/")

C8_Witness ==
  \E c, d \in Clients :
    /\ OneCredentialOnly(sdk[c].ctor) /\ sdk[c].state = "threw"
    /\ ~sdk[d].ctor.given /\ sdk[d].state = "ok"
    /\ \E o \in Ops : op[o].client = d /\ op[o].pc = "request"

Nullish(v) == v.t = "null" \/ v.t = "undefined"

\* the query mapping the endpoint method of operation r handed to _request
QueryPassed(r) == MethodDescriptor(r.method, r.args.f).query

\* C9: whenever an endpoint request is with the transport, the mapping that
\* was handed to the query encoder has no key whose value is null or
\* undefined, and has every other key of the query mapping the method
\* passed to _request, 0 and '' included, with the same value.
C9_QueryOmitsOnlyNullish ==
  \A o \in Ops :
    LET r == op[o]
        sent == r.http.url.args
    IN (IsEndpointOp(r) /\ r.pc = "request") =>
         /\ \A key \in DOMAIN sent : ~Nullish(sent[key])
         /\ DOMAIN sent \subseteq DOMAIN QueryPassed(r)
         /\ \A key \in DOMAIN QueryPassed(r) :
              ~Nullish(QueryPassed(r)[key]) => (key \in DOMAIN sent /\ sent[key] = QueryPassed(r)[key])

C9_Witness ==
  \E o \in Ops :
    /\ IsEndpointOp(op[o]) /\ op[o].pc = "request"
    /\ \E a, b, c \in DOMAIN QueryPassed(op[o]) :
         /\ Nullish(QueryPassed(op[o])[a])
         /\ QueryPassed(op[o])[b] = Num(0)
         /\ QueryPassed(op[o])[c] = Str("")
         /\ DOMAIN op[o].http.url.args = {b, c}

\* the documented defaults
DefaultedKeys(m) ==
  CASE m = "getCategories" -> {"gfyCount"}
    [] m = "getTrendingCategories" -> {"gfyCount", "tagName"}
    [] m = "getTrending" -> {"count"}
    [] m = "getTrendingTagsPopulated" -> {"count", "gfyCount"}
    [] m = "search" -> {"count"}
    [] OTHER -> {}

DocumentedDefault(key) ==
  CASE key = "gfyCount" -> Num(1)
    [] key = "count" -> Num(100)
    [] key = "tagName" -> Str("trending")

\* C10: in the first request of an endpoint operation, a field with a
\* documented default has that default when the options leave it out, and
\* the supplied value when the options supply one (other than null).
C10_DefaultsAndSuppliedValues ==
  \A o \in Ops :
    LET r == op[o]
        sent == r.http.url.args
    IN (IsEndpointOp(r) /\ r.pc = "request" /\ r.hist = << >>) =>
         \A key \in DefaultedKeys(r.method) :
           /\ key \in DOMAIN sent
           /\ Get(r.args.f, key) = Undefined => sent[key] = DocumentedDefault(key)
           /\ ~Nullish(Get(r.args.f, key)) => sent[key] = Get(r.args.f, key)

\* the first half of C10 alone
C10_OmittedFieldsGetDefaults ==
  \A o \in Ops :
    LET r == op[o]
        sent == r.http.url.args
    IN (IsEndpointOp(r) /\ r.pc = "request" /\ r.hist = << >>) =>
         \A key \in DefaultedKeys(r.method) :
           Get(r.args.f, key) = Undefined =>
             (key \in DOMAIN sent /\ sent[key] = DocumentedDefault(key))

\* the first request of r was answered 401 and the token request of the
\* re-authentication that followed failed
ReauthFailed(r) ==
  /\ Len(r.hist) >= 2
  /\ EndpointAnswer(r.hist[1], E401)
  /\ r.hist[2].api = "/oauth" /\ r.hist[2].status # Num(200)

\* C11: an endpoint operation whose request is answered 401 and whose
\* re-authentication fails is over at that point: the failure of the token
\* request is delivered, to the callback or as the rejection of the promise,
\* and the endpoint request is not dispatched a second time.
C11_ReauthFailurePropagates ==
  \A o \in Ops :
    LET r == op[o]
    IN (IsEndpointOp(r) /\ ReauthFailed(r)) =>
         /\ r.pc = "done" /\ Len(r.hist) = 2 /\ r.dispatched = 1
         /\ r.out = << IF r.cb THEN Called(r.hist[2].status, Undefined)
                       ELSE Rejected(r.hist[2].status) >>

\* C11 for the operations that gave _request a callback
C11_ReauthFailurePropagatesToCallback ==
  \A o \in Ops :
    LET r == op[o]
    IN (IsEndpointOp(r) /\ r.cb /\ ReauthFailed(r)) =>
         /\ r.pc = "done" /\ Len(r.hist) = 2 /\ r.dispatched = 1
         /\ r.out = << Called(r.hist[2].status, Undefined) >>

\* how many times the caller's callback was invoked
CallbackCalls(r) == Cardinality({i \in 1..Len(r.out) : r.out[i].via = "callback"})

\* C12: the callback of a call made with a callback is invoked at most once.
C12_CallbackAtMostOnce ==
  \A o \in Ops : op[o].userCb => CallbackCalls(op[o]) <= 1

\* C13: an endpoint operation calls authenticate at most once, and exactly
\* once when it ends under a transport that answers every endpoint request
\* with 401.
C13_AtMostOneReauth ==
  \A o \in Ops :
    LET r == op[o]
    IN IsEndpointOp(r) =>
         /\ r.reauths <= 1
         /\ (Authenticated(sdk[r.client]) /\ Always401(r.hist) /\ r.pc = "done") => r.reauths = 1

\* C13 for the operations that returned a promise
C13_AtMostOneReauthPromise ==
  \A o \in Ops : (IsEndpointOp(op[o]) /\ ~op[o].cb) => op[o].reauths <= 1

\* the step handles a transport answer to the request of operation o
Handled(o) == Len(op'[o].hist) = Len(op[o].hist) + 1

\* the answer handled last
LastAnswer(r) == r.hist[Len(r.hist)]

\* C14: a step that handles the failure of an endpoint request with
\* anything other than 401 ends the operation with that very value, in the
\* callback's error slot or as the rejection of the promise, calls
\* authenticate for nobody, dispatches nothing and leaves every client,
\* stored token included, as it was.
C14_OtherFailuresPropagateUnchanged ==
  [][\A o \in Ops :
       (Handled(o) /\ op[o].pc = "request" /\ LastAnswer(op'[o]).status \notin {Num(200), E401}) =>
          LET err == LastAnswer(op'[o]).status
          IN /\ op'[o].pc = "done"
             /\ op'[o].out = Append(op[o].out, IF op[o].cb THEN Called(err, Undefined) ELSE Rejected(err))
             /\ op'[o].reauths = op[o].reauths
             /\ op'[o].dispatched = op[o].dispatched
             /\ op'[o].http = op[o].http
             /\ sdk' = sdk]_vars

\* a retried request failed with 500: the caller has the 500, the token of
\* the re-authentication is still stored
C14_Witness ==
  \E o \in Ops :
    LET r == op[o]
    IN /\ IsEndpointOp(r) /\ r.pc = "done" /\ Len(r.hist) = 3
       /\ EndpointAnswer(r.hist[1], E401)
       /\ TokenAnswer(r.hist[2], Num(200))
       /\ EndpointAnswer(r.hist[3], Num(500))
       /\ r.out = << Called(Num(500), Undefined) >>
       /\ r.reauths = 1 /\ r.dispatched = 2
       /\ sdk[r.client].access_token = AccessTokenOf(r.hist[2].body)

TokenOf(k) == <<k.access_token, k.token_type>>

\* C15: a step changes the stored access token and token type of a client
\* only by handling a successful answer to a token request of that client,
\* and such a step stores the access_token and token_type of the answer's
\* body; every other step leaves both as they were.
C15_TokenSetOnlyByAuthentication ==
  [][\A c \in Clients :
       LET issued == {o \in Ops : /\ Handled(o) /\ op[o].pc = "oauth" /\ op[o].client = c
                                  /\ LastAnswer(op'[o]).status = Num(200)}
       IN IF issued # {}
          THEN \A o \in issued :
                 TokenOf(sdk'[c]) = <<AccessTokenOf(LastAnswer(op'[o]).body),
                                      TokenTypeOf(LastAnswer(op'[o]).body)>>
          ELSE TokenOf(sdk'[c]) = TokenOf(sdk[c])]_vars

\* a token was issued, and the failure of a later token request left it
C15_Witness ==
  \E o \in Ops :
    LET r == op[o]
    IN /\ Len(r.hist) = 4
       /\ TokenAnswer(r.hist[2], Num(200))
       /\ TokenAnswer(r.hist[4], Num(500))
       /\ r.pc = "done"
       /\ TokenOf(sdk[r.client]) = <<AccessTokenOf(r.hist[2].body), TokenTypeOf(r.hist[2].body)>>
       /\ Truthy(sdk[r.client].access_token)

\* the step hands a request of operation o to the transport
Dispatches(o) == op'[o] # op[o] /\ InFlight(op'[o])

ClaimedBasePath(k) == IF k.ctor.given THEN DefaultBasePath ELSE TestBasePath

\* C17: every request in flight has a URL under the host followed by '/v1/'
\* when its client was constructed with client_id and client_secret, and
\* by '/v1test/' when its client was constructed without options, whatever
\* other clients were constructed before or after.
C17_BasePathFollowsConstructor ==
  \A o \in Ops :
    InFlight(op[o]) =>
      StartsWith(op[o].http.url.path, API_HOSTNAME \o ClaimedBasePath(sdk[op[o].client]) \o "/")

\* C17 for the clients constructed before any client without options
C17_BasePathBeforeAnonymous ==
  \A o \in Ops :
    (InFlight(op[o]) /\ \A c \in Clients : c < op[o].client => sdk[c].ctor.given) =>
      StartsWith(op[o].http.url.path, API_HOSTNAME \o ClaimedBasePath(sdk[op[o].client]) \o "/")

\* the token request of a re-authentication of operation r is in flight
Reauthenticating(r) == r.method \in EndpointMethods /\ r.pc = "oauth"

\* C18: while the re-authentication of an operation p is in flight, a 401
\* answered to another operation o of the same client starts a second token
\* request, for o, and leaves p's in flight; and a successful answer to the
\* token request of o stores the token of that answer, over whatever token
\* is stored, and leaves p's token request in flight, whose answer will in
\* turn store its own.
C18_ConcurrentReauthsOverwrite ==
  [][\A o, p \in Ops :
       (o # p /\ op[o].client = op[p].client /\ Reauthenticating(op[p]) /\ Handled(o)) =>
          /\ op'[p] = op[p]
          /\ (op[o].pc = "request" /\ LastAnswer(op'[o]).status = E401) =>
                /\ Reauthenticating(op'[o])
                /\ op'[o].reauths = op[o].reauths + 1
                /\ op'[o].http.url.path = sdk[op[o].client].apiUrl \o "/oauth/token"
                /\ sdk' = sdk
          /\ (op[o].pc = "oauth" /\ LastAnswer(op'[o]).status = Num(200)) =>
                TokenOf(sdk'[op[o].client]) = <<AccessTokenOf(LastAnswer(op'[o]).body),
                                                 TokenTypeOf(LastAnswer(op'[o]).body)>>]_vars

\* two operations of one client, each with its own token request in flight,
\* after a first token was stored
C18_Witness ==
  \E o, p \in Ops :
    /\ o # p /\ op[o].client = op[p].client
    /\ Reauthenticating(op[o]) /\ Reauthenticating(op[p])
    /\ Len(op[o].hist) = 3 /\ TokenAnswer(op[o].hist[2], Num(200))
    /\ Len(op[p].hist) = 1
    /\ Truthy(sdk[op[o].client].access_token)

\* operation r was called: its method has built the descriptor object
\* r.options and _request has made an attempt with it
Attempted(r) == r.method \in EndpointMethods /\ r.pc \notin {"idle", "threw"}

\* C19: the descriptor object an attempt was made with is never changed
\* afterwards, neither by a retry of its own operation (which is to work on
\* a copy with the counter one higher) nor by a step of another operation.
C19_DescriptorsNotMutated ==
  [][\A o \in Ops : Attempted(op[o]) => op'[o].options = op[o].options]_vars

\* the second half of C19 alone: a step of one operation leaves the
\* descriptor and the request in flight of every other operation
C19_OtherOperationsUntouched ==
  [][\A o, p \in Ops :
       (o # p /\ op'[o] # op[o]) => (op'[p].options = op[p].options /\ op'[p].http = op[p].http)]_vars

\* the options of the call have a client_id or a client_secret
SuppliesCredentials(args) ==
  \E key \in {"client_id", "client_secret"} : key \in DOMAIN args.f /\ Truthy(args.f[key])

MissingCredentialsFailure(r) ==
  << IF r.cb THEN Called(MissingCredentialsMsg, Undefined) ELSE Rejected(MissingCredentialsMsg) >>

\* C20: a call of authenticate ends at once with the missing-credentials
\* error, with nothing handed to the transport and no token stored, when
\* its client was constructed without options and its own options have no
\* client_id or client_secret, and in every other case hands a token
\* request to the transport and never gives that error; and an endpoint
\* operation of a client constructed without options whose request is
\* answered 401 ends with the missing-credentials error, after that one
\* dispatch.
C20_MissingCredentials ==
  \A o \in Ops :
    LET r == op[o]
        k == sdk[r.client]
    IN /\ IsAuthenticateOp(r) =>
            IF ~k.ctor.given /\ ~SuppliesCredentials(r.args)
            THEN /\ r.pc = "done" /\ r.hist = << >> /\ r.http = NoHttp
                 /\ r.out = MissingCredentialsFailure(r)
                 /\ TokenOf(k) = <<Undefined, Undefined>>
            ELSE /\ r.pc = "oauth" \/ r.hist # << >>
                 /\ r.http.url.path = k.apiUrl \o "/oauth/token"
                 /\ \A i \in 1..Len(r.out) : r.out[i].err # MissingCredentialsMsg
       /\ (IsEndpointOp(r) /\ ~k.ctor.given /\ r.hist # << >> /\ EndpointAnswer(r.hist[1], E401)) =>
            /\ r.pc = "done" /\ Len(r.hist) = 1 /\ r.dispatched = 1 /\ r.reauths = 1
            /\ r.out = MissingCredentialsFailure(r)
            /\ TokenOf(k) = <<Undefined, Undefined>>

\* on a client without credentials, an endpoint call with a callback was
\* answered 401 and ended with the missing-credentials error
C20_Witness ==
  \E o \in Ops :
    /\ IsEndpointOp(op[o]) /\ ~sdk[op[o].client].ctor.given
    /\ op[o].cb /\ Len(op[o].hist) = 1 /\ EndpointAnswer(op[o].hist[1], E401)
    /\ op[o].out = << Called(MissingCredentialsMsg, Undefined) >>
    /\ op[o].dispatched = 1 /\ op[o].pc = "done"

\* authenticate itself, called without credentials anywhere
C20_WitnessAuthenticate ==
  \E o \in Ops :
    /\ IsAuthenticateOp(op[o]) /\ ~sdk[op[o].client].ctor.given /\ ~op[o].userCb
    /\ op[o].out = << Rejected(MissingCredentialsMsg) >>

====
